---- MODULE Spec2Model ----
(***************************************************************************)
(* Order lifecycle and ledger engine of tradebot (trading.py,              *)
(* data_manager.py).                                                       *)
(*                                                                         *)
(* The ledger is three JSON files (orders, positions, balances).  Every    *)
(* data_manager.load / save takes the module lock for that one file access *)
(* only, so each load and each save is one atomic step and a handler is a  *)
(* sequence of such steps.  The user's calls (buy, sell, cancel_order) run *)
(* one at a time on the main thread; every placed order starts a           *)
(* threading.Timer whose thread runs _execute_order concurrently.          *)
(*                                                                         *)
(* Units: money is in cents, prices are in 1/100 cent (the quote is        *)
(* rounded to 4 decimals), quantities are whole units.                     *)
(***************************************************************************)
EXTENDS Integers, Sequences, FiniteSets, TLC

\* ---- bounds of the model ------------------------------------------------
\* calls of buy / sell / cancel_order the user makes
MaxCalls == 3
\* timer threads that are inside _execute_order at the same time
MaxInFlight == 2
\* largest quantity the user asks for
MaxQty == 2
\* cash in balances.json when the program starts (cents)
InitCash == 500
\* quantity held of HeldSymbol when the program starts
InitQty == 2

Symbols == {"AAA"}
HeldSymbol == "AAA"
\* what quotes.get_quote can return as "price": None or a price (1/100 cent)
NoPrice == 0
Prices == {20050}
Quantities == 1..MaxQty
\* what insights.check_trade_against_insights can do: return a text, return
\* the empty string, raise
AdvisorOutcomes == {"text", "", "error"}
\* the advisor's outcome in the runs of the whole program
Advice == {"text"}

VARIABLES
    orders,      \* orders.json
    positions,   \* positions.json
    balances,    \* balances.json
    main,        \* the main thread: position in the running call, its locals
    calls,       \* number of calls the user has made
    timers,      \* trading._pending_timers, with each timer thread's state
    notes,       \* messages passed to _notify, in order
    returned,    \* what each finished call returned, in order
    pending,     \* TradeBot._pending_notifications
    delivered    \* messages that get_pending_notifications has returned, in order

vars == <<orders, positions, balances, main, calls, timers, notes, returned,
          pending, delivered>>

\* ---- numbers ------------------------------------------------------------

\* round(x, 2) of an amount given in 1/100 cent, in cents (round half even)
Round2(x) ==
    LET q == x \div 100
        r == x % 100
    IN  IF r > 50 \/ (r = 50 /\ q % 2 = 1) THEN q + 1 ELSE q

\* round(num / den, 4) of a price in 1/100 cent (round half even), den > 0
Round4Div(num, den) ==
    LET q == num \div den
        r == num % den
    IN  IF 2 * r > den \/ (2 * r = den /\ q % 2 = 1) THEN q + 1 ELSE q

\* ---- order ids: "ORD" followed by digits ----------------------------------

DigitChars == <<"0", "1", "2", "3", "4", "5", "6", "7", "8", "9">>

IsDigit(c) == \E d \in 1..10 : DigitChars[d] = c

DigitVal(c) == (CHOOSE d \in 1..10 : DigitChars[d] = c) - 1

RECURSIVE DecStr(_)
\* the decimal digits of n >= 0
DecStr(n) ==
    IF n < 10 THEN <<DigitChars[n + 1]>>
    ELSE DecStr(n \div 10) \o <<DigitChars[(n % 10) + 1]>>

RECURSIVE ZeroPad3(_)
\* the format spec 03d: pad with zeros on the left to 3 characters
ZeroPad3(s) == IF Len(s) >= 3 THEN s ELSE ZeroPad3(<<"0">> \o s)

\* f"ORD{n:03d}"
FormatOrderId(n) == <<"O", "R", "D">> \o ZeroPad3(DecStr(n))

RECURSIVE ReplaceORD(_)
\* s.replace("ORD", ""): every occurrence, left to right
ReplaceORD(s) ==
    IF Len(s) < 3 THEN s
    ELSE IF SubSeq(s, 1, 3) = <<"O", "R", "D">>
         THEN ReplaceORD(SubSeq(s, 4, Len(s)))
         ELSE <<s[1]>> \o ReplaceORD(SubSeq(s, 2, Len(s)))

RECURSIVE DigitsValue(_)
DigitsValue(s) ==
    IF s = <<>> THEN 0
    ELSE 10 * DigitsValue(SubSeq(s, 1, Len(s) - 1)) + DigitVal(s[Len(s)])

\* int(s): [ok |-> FALSE] stands for ValueError
ParseInt(s) ==
    LET signed == s /= <<>> /\ s[1] \in {"-", "+"}
        body   == IF signed THEN SubSeq(s, 2, Len(s)) ELSE s
    IN  IF body /= <<>> /\ \A i \in 1..Len(body) : IsDigit(body[i])
        THEN [ok |-> TRUE,
              val |-> IF signed /\ s[1] = "-" THEN 0 - DigitsValue(body)
                      ELSE DigitsValue(body)]
        ELSE [ok |-> FALSE, val |-> 0]

RECURSIVE MaxNum(_, _)
\* the loop of next_order_id over the orders, from max_num = m
MaxNum(ords, m) ==
    IF ords = <<>> THEN m
    ELSE LET p == ParseInt(ReplaceORD(Head(ords).id))
         IN  MaxNum(Tail(ords), IF p.ok /\ p.val > m THEN p.val ELSE m)

\* data_manager.next_order_id on the orders it loaded
next_order_id(ords) == FormatOrderId(MaxNum(ords, 0) + 1)

\* ---- records ------------------------------------------------------------

CRYPTO_SYMBOLS == {"BTC", "ETH", "SOL", "ADA", "DOGE", "XRP", "DOT", "AVAX",
                   "MATIC", "LINK", "SHIB"}

_asset_type(symbol) == IF symbol \in CRYPTO_SYMBOLS THEN "crypto" ELSE "stock"

\* a timestamp names the call or the timer thread that took it:
\* n > 0 is the user's n-th call, -t is timer thread t, 0 is "field absent"
NoStamp == 0

NewOrder(id, symbol, action, quantity, price, stamp) ==
    [id |-> id, symbol |-> symbol, type |-> _asset_type(symbol),
     action |-> action, quantity |-> quantity, price |-> price,
     total |-> Round2(price * quantity), status |-> "open",
     created_at |-> stamp, executed_at |-> NoStamp, cancelled_at |-> NoStamp]

\* next((x for x in seq if x[key] == v), None): the index of the first, 0 for None
FindOrder(ords, id) ==
    IF \E i \in 1..Len(ords) : ords[i].id = id
    THEN CHOOSE i \in 1..Len(ords) :
            ords[i].id = id /\ \A j \in 1..(i - 1) : ords[j].id /= id
    ELSE 0

FindPosition(poss, symbol) ==
    IF \E i \in 1..Len(poss) : poss[i].symbol = symbol
    THEN CHOOSE i \in 1..Len(poss) :
            poss[i].symbol = symbol /\ \A j \in 1..(i - 1) : poss[j].symbol /= symbol
    ELSE 0

RECURSIVE SumValue(_)
\* sum(p["quantity"] * p["current_price"] for p in positions), in 1/100 cent
SumValue(poss) ==
    IF poss = <<>> THEN 0
    ELSE Head(poss).quantity * Head(poss).current_price + SumValue(Tail(poss))

\* ---- the main thread ----------------------------------------------------

Idle == [pc |-> "idle"]

Return(op, arg, res) == Append(returned, [op |-> op, arg |-> arg, res |-> res])

\* buy lines 87-93, sell lines 146-152: the result of a placement, with the
\* insight line when there is a warning; advisor notes what the advisor did
ReturnPlaced(op, arg, warning, advisor) ==
    Append(returned, [op |-> op, arg |-> arg, res |-> "placed", warning |-> warning,
                      advisor |-> advisor])

\* cancel_order line 163: the failure that names the status the order is in
ReturnInvalidState(order_id, status) ==
    Append(returned, [op |-> "cancel", arg |-> order_id, res |-> "invalid_state",
                      status |-> status])

\* buy lines 61-65, sell lines 120-124: warning = "", try the advisor, except pass
Warning(advice) == IF advice = "error" THEN "" ELSE advice

\* _schedule_execution: one Timer per call, kept in _pending_timers
NoLocals == [orders |-> <<>>, i |-> 0, balances |-> <<>>, positions |-> <<>>]

\* runs counts the calls of _execute_order the timer has made; outcome is how
\* that call ended: "noop" (line 238), "cancelled" (lines 250, 280), "executed"
NewTimer(order_id) ==
    [order_id |-> order_id, pc |-> "pending", runs |-> 0, outcome |-> "none",
     loc |-> NoLocals]

\* a scheduler that starts two timers for one order
ScheduleTwice(ts, order_id) == Append(Append(ts, NewTimer(order_id)), NewTimer(order_id))

_schedule_execution(ts, order_id) == Append(ts, NewTimer(order_id))

InitPositions ==
    <<[symbol |-> HeldSymbol, name |-> HeldSymbol, type |-> _asset_type(HeldSymbol),
       quantity |-> InitQty, avg_cost |-> 20000, current_price |-> 20000]>>

Init ==
    /\ orders = <<>>
    /\ positions = InitPositions
    /\ balances = [cash |-> InitCash,
                   non_cash |-> Round2(SumValue(InitPositions)),
                   total |-> Round2(InitCash * 100 + SumValue(InitPositions)),
                   last_updated |-> NoStamp]
    /\ main = Idle
    /\ calls = 0
    /\ timers = <<>>
    /\ notes = <<>>
    /\ returned = <<>>
    /\ pending = <<>>
    /\ delivered = <<>>

CanCall == main.pc = "idle" /\ calls < MaxCalls

\* a cash check that refuses nothing
NeverInsufficient(total, cash) == FALSE

\* a cash check that refuses a total equal to the cash
NotBelowCash(total, cash) == total >= cash

\* buy line 53: if total > balances["cash"]
InsufficientCash(total, cash) == total > cash

\* a buy that lets the error of the advisor reach its caller
BuyAdvisorRaises(symbol, quantity, price, advice) ==
    /\ CanCall
    /\ calls' = calls + 1
    /\ IF price = NoPrice
       THEN /\ main' = Idle
            /\ returned' = Return("buy", symbol, "no_price")
       ELSE IF InsufficientCash(Round2(price * quantity), balances.cash)
       THEN /\ main' = Idle
            /\ returned' = Return("buy", symbol, "insufficient_cash")
       ELSE IF advice = "error"
       THEN /\ main' = Idle
            /\ returned' = Return("buy", symbol, "error")
       ELSE /\ main' = [pc |-> "next_order_id",
                        order |-> NewOrder(<<>>, symbol, "buy", quantity, price,
                                           calls + 1),
                        warning |-> Warning(advice), advisor |-> advice]
            /\ UNCHANGED returned
    /\ UNCHANGED <<orders, positions, balances, timers, notes, pending, delivered>>

\* buy, lines 40-65: the quote, the cash check against balances.json, the advisory
buy_check(symbol, quantity, price, advice) ==
    /\ CanCall
    /\ calls' = calls + 1
    /\ IF price = NoPrice
       THEN /\ main' = Idle
            /\ returned' = Return("buy", symbol, "no_price")
       ELSE IF InsufficientCash(Round2(price * quantity), balances.cash)
       THEN /\ main' = Idle
            /\ returned' = Return("buy", symbol, "insufficient_cash")
       ELSE /\ main' = [pc |-> "next_order_id",
                        order |-> NewOrder(<<>>, symbol, "buy", quantity, price,
                                           calls + 1),
                        warning |-> Warning(advice), advisor |-> advice]
            /\ UNCHANGED returned
    /\ UNCHANGED <<orders, positions, balances, timers, notes, pending, delivered>>

\* a sell that asks for the quote before it looks at the position
SellQuoteFirst(symbol, quantity, price, advice) ==
    /\ CanCall
    /\ calls' = calls + 1
    /\ LET i == FindPosition(positions, symbol)
       IN  IF price = NoPrice
           THEN /\ main' = Idle
                /\ returned' = Return("sell", symbol, "no_price")
           ELSE IF i = 0
           THEN /\ main' = Idle
                /\ returned' = Return("sell", symbol, "no_position")
           ELSE IF quantity > positions[i].quantity
           THEN /\ main' = Idle
                /\ returned' = Return("sell", symbol, "insufficient_quantity")
           ELSE /\ main' = [pc |-> "next_order_id",
                            order |-> NewOrder(<<>>, symbol, "sell", quantity, price,
                                               calls + 1),
                            warning |-> Warning(advice), advisor |-> advice]
                /\ UNCHANGED returned
    /\ UNCHANGED <<orders, positions, balances, timers, notes, pending, delivered>>

\* sell, lines 96-124: the position check against positions.json, the quote
sell_check(symbol, quantity, price, advice) ==
    /\ CanCall
    /\ calls' = calls + 1
    /\ LET i == FindPosition(positions, symbol)
       IN  IF i = 0
           THEN /\ main' = Idle
                /\ returned' = Return("sell", symbol, "no_position")
           ELSE IF quantity > positions[i].quantity
           THEN /\ main' = Idle
                /\ returned' = Return("sell", symbol, "insufficient_quantity")
           ELSE IF price = NoPrice
           THEN /\ main' = Idle
                /\ returned' = Return("sell", symbol, "no_price")
           ELSE /\ main' = [pc |-> "next_order_id",
                            order |-> NewOrder(<<>>, symbol, "sell", quantity, price,
                                               calls + 1),
                            warning |-> Warning(advice), advisor |-> advice]
                /\ UNCHANGED returned
    /\ UNCHANGED <<orders, positions, balances, timers, notes, pending, delivered>>

\* buy line 68, sell line 127: order_id = data_manager.next_order_id()
place_next_order_id ==
    /\ main.pc = "next_order_id"
    /\ main' = [pc |-> "get_orders",
                order |-> [main.order EXCEPT !.id = next_order_id(orders)],
                warning |-> main.warning, advisor |-> main.advisor]
    /\ UNCHANGED <<orders, positions, balances, calls, timers, notes, returned,
                 pending, delivered>>

\* buy lines 80-81, sell lines 139-140: orders = get_orders(); orders.append(order)
place_get_orders ==
    /\ main.pc = "get_orders"
    /\ main' = [pc |-> "save_orders", order |-> main.order,
                warning |-> main.warning, advisor |-> main.advisor,
                orders |-> Append(orders, main.order)]
    /\ UNCHANGED <<orders, positions, balances, calls, timers, notes, returned,
                 pending, delivered>>

\* a placement that books the total of the order at once
PlaceAndDebit ==
    /\ main.pc = "save_orders"
    /\ orders' = main.orders
    /\ timers' = _schedule_execution(timers, main.order.id)
    /\ returned' = ReturnPlaced(main.order.action, main.order.id, main.warning,
                                main.advisor)
    /\ main' = Idle
    /\ balances' = [balances EXCEPT !.cash = @ - main.order.total]
    /\ UNCHANGED <<positions, calls, notes, pending, delivered>>

\* buy lines 82-93, sell lines 141-152: save_orders(orders), then the timer
place_save_orders ==
    /\ main.pc = "save_orders"
    /\ orders' = main.orders
    /\ timers' = _schedule_execution(timers, main.order.id)
    /\ returned' = ReturnPlaced(main.order.action, main.order.id, main.warning,
                                main.advisor)
    /\ main' = Idle
    /\ UNCHANGED <<positions, balances, calls, notes, pending, delivered>>

\* cancel_order lines 157-166: get_orders(), the checks, the change of the copy
cancel_lookup(order_id) ==
    /\ calls' = calls + 1
    /\ LET i == FindOrder(orders, order_id)
       IN  IF i = 0
           THEN /\ main' = Idle
                /\ returned' = Return("cancel", order_id, "not_found")
           ELSE IF orders[i].status /= "open"
           THEN /\ main' = Idle
                /\ returned' = ReturnInvalidState(order_id, orders[i].status)
           ELSE /\ main' = [pc |-> "cancel_save", order_id |-> order_id,
                            orders |-> [orders EXCEPT ![i].status = "cancelled",
                                                      ![i].cancelled_at = calls + 1]]
                /\ UNCHANGED returned
    /\ UNCHANGED <<orders, positions, balances, timers, notes, pending, delivered>>

\* the user calls cancel_order(order_id)
cancel_get_orders(order_id) == CanCall /\ cancel_lookup(order_id)

\* cancel_order lines 167-168: save_orders(orders)
cancel_save_orders ==
    /\ main.pc = "cancel_save"
    /\ orders' = main.orders
    /\ returned' = Return("cancel", main.order_id, "cancelled")
    /\ main' = Idle
    /\ UNCHANGED <<positions, balances, calls, timers, notes, pending, delivered>>

\* ---- _execute_order, run by timer thread t --------------------------------

InFlight == {t \in 1..Len(timers) : timers[t].pc \notin {"pending", "done"}}

\* an early return that forgets the status
NotFoundOnly(ords, i) == i = 0

\* line 237: order is None or order["status"] != "open"
NotExecutable(ords, i) == i = 0 \/ ords[i].status /= "open"

\* lines 235-238: orders = get_orders(), the lookup, the early return
exec_get_orders(t) ==
    /\ timers[t].pc = "pending"
    /\ Cardinality(InFlight) < MaxInFlight
    /\ LET i == FindOrder(orders, timers[t].order_id)
       IN  timers' = [timers EXCEPT ![t] =
               IF NotExecutable(orders, i)
               THEN [@ EXCEPT !.pc = "done", !.runs = @ + 1, !.outcome = "noop"]
               ELSE [@ EXCEPT !.pc = "get_balances", !.runs = @ + 1,
                              !.loc = [NoLocals EXCEPT !.orders = orders, !.i = i]]]
    /\ UNCHANGED <<orders, positions, balances, main, calls, notes, returned,
                 pending, delivered>>

\* line 240: balances = get_balances()
exec_get_balances(t) ==
    /\ timers[t].pc = "get_balances"
    /\ timers' = [timers EXCEPT ![t].pc = "get_positions",
                                ![t].loc.balances = balances]
    /\ UNCHANGED <<orders, positions, balances, main, calls, notes, returned,
                 pending, delivered>>

\* a re-validation that lets every buy through
InvalidSellOnly(order, bal, poss) ==
    LET p == FindPosition(poss, order.symbol)
    IN  order.action = "sell" /\ (p = 0 \/ order.quantity > poss[p].quantity)

\* lines 245, 275: the re-validation fails
Invalid(order, bal, poss) ==
    LET p == FindPosition(poss, order.symbol)
    IN  IF order.action = "buy" THEN order.total > bal.cash
        ELSE p = 0 \/ order.quantity > poss[p].quantity

\* lines 252, 282: the new cash
NewCash(order, bal) ==
    IF order.action = "buy" THEN Round2((bal.cash - order.total) * 100)
    ELSE Round2((bal.cash + order.total) * 100)

\* a buy that adds a position without looking for the one of the symbol
BuyAppends(order, poss) ==
    Append(poss, [symbol |-> order.symbol, name |-> order.symbol,
                  type |-> order.type, quantity |-> order.quantity,
                  avg_cost |-> order.price, current_price |-> order.price])

\* lines 254-270: update or create the position of a buy
BuyPositions(order, poss) ==
    LET p == FindPosition(poss, order.symbol)
    IN  IF p /= 0
        THEN LET old_total == poss[p].quantity * poss[p].avg_cost
                 new_total == order.quantity * order.price
                 quantity  == poss[p].quantity + order.quantity
             IN  [poss EXCEPT ![p].quantity = quantity,
                              ![p].avg_cost = Round4Div(old_total + new_total, quantity),
                              ![p].current_price = order.price]
        ELSE Append(poss, [symbol |-> order.symbol, name |-> order.symbol,
                           type |-> order.type, quantity |-> order.quantity,
                           avg_cost |-> order.price, current_price |-> order.price])

\* lines 283-286: decrement the position of a sell, drop it at quantity <= 0
SellPositions(order, poss) ==
    LET p == FindPosition(poss, order.symbol)
        upd == [poss EXCEPT ![p].quantity = @ - order.quantity,
                            ![p].current_price = order.price]
    IN  IF upd[p].quantity <= 0
        THEN SelectSeq(upd, LAMBDA x : x.symbol /= order.symbol)
        ELSE upd

NewPositions(order, poss) ==
    IF order.action = "buy" THEN BuyPositions(order, poss)
    ELSE SellPositions(order, poss)

\* lines 288-292: non_cash, total, last_updated from the new cash and positions
Recalculate(bal, cash, poss, stamp) ==
    [bal EXCEPT !.cash = cash,
                !.non_cash = Round2(SumValue(poss)),
                !.total = Round2(cash * 100 + SumValue(poss)),
                !.last_updated = stamp]

\* lines 241-295: positions = get_positions(), the re-validation and the new
\* ledger, all computed on the thread's copies
exec_get_positions(t) ==
    /\ timers[t].pc = "get_positions"
    /\ LET loc   == timers[t].loc
           order == loc.orders[loc.i]
           bal   == loc.balances
       IN  timers' = [timers EXCEPT ![t] =
               IF Invalid(order, bal, positions)
               THEN [@ EXCEPT !.pc = "notify_failed",
                              !.loc.positions = positions]
               ELSE [@ EXCEPT !.pc = "save_orders",
                              !.loc.orders[loc.i].status = "executed",
                              !.loc.orders[loc.i].executed_at = 0 - t,
                              !.loc.positions = NewPositions(order, positions),
                              !.loc.balances =
                                  Recalculate(bal, NewCash(order, bal),
                                              NewPositions(order, positions), 0 - t)]]
    /\ UNCHANGED <<orders, positions, balances, main, calls, notes, returned,
                 pending, delivered>>

\* lines 246, 276: _notify of the failure; the callback (bot.py line 236) appends
\* the message to _pending_notifications
exec_notify_failed(t) ==
    /\ timers[t].pc = "notify_failed"
    /\ notes' = Append(notes, [kind |-> "failed", order_id |-> timers[t].order_id])
    /\ pending' = Append(pending, [kind |-> "failed",
                                   order_id |-> timers[t].order_id])
    /\ timers' = [timers EXCEPT ![t].pc = "save_cancelled",
                                ![t].loc.orders[timers[t].loc.i].status = "cancelled",
                                ![t].loc.orders[timers[t].loc.i].cancelled_at = 0 - t]
    /\ UNCHANGED <<orders, positions, balances, main, calls, returned, delivered>>

\* lines 247-250, 277-280: save_orders(orders) of the cancelled order, return
exec_save_cancelled(t) ==
    /\ timers[t].pc = "save_cancelled"
    /\ orders' = timers[t].loc.orders
    /\ timers' = [timers EXCEPT ![t].pc = "done", ![t].outcome = "cancelled",
                                ![t].loc = NoLocals]
    /\ UNCHANGED <<positions, balances, main, calls, notes, returned,
                 pending, delivered>>

\* line 297: save_orders(orders)
exec_save_orders(t) ==
    /\ timers[t].pc = "save_orders"
    /\ orders' = timers[t].loc.orders
    /\ timers' = [timers EXCEPT ![t].pc = "save_positions"]
    /\ UNCHANGED <<positions, balances, main, calls, notes, returned,
                 pending, delivered>>

\* line 298: save_positions(positions)
exec_save_positions(t) ==
    /\ timers[t].pc = "save_positions"
    /\ positions' = timers[t].loc.positions
    /\ timers' = [timers EXCEPT ![t].pc = "save_balances"]
    /\ UNCHANGED <<orders, balances, main, calls, notes, returned, pending, delivered>>

\* line 299: save_balances(balances)
exec_save_balances(t) ==
    /\ timers[t].pc = "save_balances"
    /\ balances' = timers[t].loc.balances
    /\ timers' = [timers EXCEPT ![t].pc = "notify_executed"]
    /\ UNCHANGED <<orders, positions, main, calls, notes, returned,
                 pending, delivered>>

\* lines 301-304: _notify of the execution; the callback (bot.py line 236)
\* appends the message to _pending_notifications
exec_notify_executed(t) ==
    /\ timers[t].pc = "notify_executed"
    /\ notes' = Append(notes, [kind |-> "executed", order_id |-> timers[t].order_id])
    /\ pending' = Append(pending, [kind |-> "executed",
                                   order_id |-> timers[t].order_id])
    /\ timers' = [timers EXCEPT ![t].pc = "done", ![t].outcome = "executed",
                                ![t].loc = NoLocals]
    /\ UNCHANGED <<orders, positions, balances, main, calls, returned, delivered>>

\* ---- the program ----------------------------------------------------------

\* the ids the user may name in cancel_order, in upper case (line 157 leaves them
\* as they are): every id a placement can have returned before the call, each
\* also named before any order has it
CancelIds == {FormatOrderId(n) : n \in 1..(MaxCalls - 1)}

Quotes == Prices \cup {NoPrice}

Next ==
    \/ \E s \in Symbols, q \in Quantities, p \in Quotes, a \in Advice :
           buy_check(s, q, p, a)
    \/ \E s \in Symbols, q \in Quantities, p \in Quotes, a \in Advice :
           sell_check(s, q, p, a)
    \/ place_next_order_id
    \/ place_get_orders
    \/ place_save_orders
    \/ \E id \in CancelIds : cancel_get_orders(id)
    \/ cancel_save_orders
    \/ \E t \in 1..Len(timers) : exec_get_orders(t)
    \/ \E t \in 1..Len(timers) : exec_get_balances(t)
    \/ \E t \in 1..Len(timers) : exec_get_positions(t)
    \/ \E t \in 1..Len(timers) : exec_notify_failed(t)
    \/ \E t \in 1..Len(timers) : exec_save_cancelled(t)
    \/ \E t \in 1..Len(timers) : exec_save_orders(t)
    \/ \E t \in 1..Len(timers) : exec_save_positions(t)
    \/ \E t \in 1..Len(timers) : exec_save_balances(t)
    \/ \E t \in 1..Len(timers) : exec_notify_executed(t)

Spec == Init /\ [][Next]_vars

\* ---- placements alone, over more inputs ------------------------------------

\* a symbol that is held and one that is not
PlaceSymbols == {"AAA", "BBB"}

\* quotes whose total for two units is the stored cash, and one cent above it
PlacePrices == {20050, 50 * InitCash, 50 * InitCash + 50}

PlaceQuotes == PlacePrices \cup {NoPrice}

\* up to one unit more than is held
PlaceQuantities == 1..(InitQty + 1)

\* bot.py lines 176-181: the user's buy and sell commands, no timer has fired yet
NextPlace ==
    \/ \E s \in PlaceSymbols, q \in PlaceQuantities, p \in PlaceQuotes,
          a \in AdvisorOutcomes : buy_check(s, q, p, a)
    \/ \E s \in PlaceSymbols, q \in PlaceQuantities, p \in PlaceQuotes,
          a \in AdvisorOutcomes : sell_check(s, q, p, a)
    \/ place_next_order_id
    \/ place_get_orders
    \/ place_save_orders

SpecPlace == Init /\ [][NextPlace]_vars

\* ---- placements on an orders.json that holds ids of any form ------------------

\* ids found in orders.json: ids that next_order_id wrote, and ids written by
\* hand: without the prefix, with the prefix behind or twice, with no number, with
\* a letter or a sign for a number
IdSamples ==
    {<<"O", "R", "D", "0", "0", "1">>,
     <<"O", "R", "D", "0", "2", "4">>,
     <<"O", "R", "D", "1", "0", "0", "0">>,
     <<"4", "2">>,
     <<"7", "O", "R", "D">>,
     <<"O", "R", "D", "O", "R", "D", "9">>,
     <<"O", "R", "D">>,
     <<"O", "R", "D", "x">>,
     <<"O", "R", "D", "-", "5">>}

\* the most orders that orders.json holds at the start
MaxStored == 2

\* an order of an earlier session, executed, with this id
StoredOrder(id) ==
    [NewOrder(id, HeldSymbol, "buy", 1, 20050, NoStamp) EXCEPT !.status = "executed"]

\* the orders.json files of the start: up to MaxStored orders, ids from IdSamples
StoredSamples ==
    UNION {[1..n -> {StoredOrder(id) : id \in IdSamples}] : n \in 0..MaxStored}

InitIds ==
    /\ orders \in StoredSamples
    /\ positions = InitPositions
    /\ balances = [cash |-> InitCash, non_cash |-> Round2(SumValue(InitPositions)),
                   total |-> Round2(InitCash * 100 + SumValue(InitPositions)),
                   last_updated |-> NoStamp]
    /\ main = Idle
    /\ calls = 0
    /\ timers = <<>>
    /\ notes = <<>>
    /\ returned = <<>>
    /\ pending = <<>>
    /\ delivered = <<>>

\* the user's buy commands on such a file, no timer has fired yet
NextIds ==
    \/ \E s \in Symbols, q \in Quantities, p \in Quotes, a \in Advice :
           buy_check(s, q, p, a)
    \/ place_next_order_id
    \/ place_get_orders
    \/ place_save_orders

SpecIds == InitIds /\ [][NextIds]_vars

\* ---- buys of two symbols and their executions -------------------------------

\* bot.py lines 176-177: the user's buy commands of one unit of a held or a new
\* symbol, and the timer threads
NextBuys ==
    \/ \E s \in PlaceSymbols, p \in Prices, a \in Advice : buy_check(s, 1, p, a)
    \/ place_next_order_id
    \/ place_get_orders
    \/ place_save_orders
    \/ \E t \in 1..Len(timers) : exec_get_orders(t)
    \/ \E t \in 1..Len(timers) : exec_get_balances(t)
    \/ \E t \in 1..Len(timers) : exec_get_positions(t)
    \/ \E t \in 1..Len(timers) : exec_notify_failed(t)
    \/ \E t \in 1..Len(timers) : exec_save_cancelled(t)
    \/ \E t \in 1..Len(timers) : exec_save_orders(t)
    \/ \E t \in 1..Len(timers) : exec_save_positions(t)
    \/ \E t \in 1..Len(timers) : exec_save_balances(t)
    \/ \E t \in 1..Len(timers) : exec_notify_executed(t)

SpecBuys == Init /\ [][NextBuys]_vars

\* ---- the notifications on their way to the user ----------------------------

\* bot.py line 239, called by main.py line 33: notes = list(self._pending_notifications)
get_pending_copy ==
    /\ main.pc = "idle"
    /\ main' = [pc |-> "clear", notes |-> pending]
    /\ UNCHANGED <<orders, positions, balances, calls, timers, notes, returned,
                   pending, delivered>>

\* bot.py lines 240-241: self._pending_notifications.clear(); return notes
get_pending_clear ==
    /\ main.pc = "clear"
    /\ pending' = <<>>
    /\ delivered' = delivered \o main.notes
    /\ main' = Idle
    /\ UNCHANGED <<orders, positions, balances, calls, timers, notes, returned>>

\* main.py lines 32-35 and bot.py lines 176-177: the loop that prints the pending
\* notifications before each command, the user's buy commands of one unit, the
\* timer threads
NextNotify ==
    \/ get_pending_copy
    \/ get_pending_clear
    \/ \E s \in Symbols, p \in Prices, a \in Advice : buy_check(s, 1, p, a)
    \/ place_next_order_id
    \/ place_get_orders
    \/ place_save_orders
    \/ \E t \in 1..Len(timers) : exec_get_orders(t)
    \/ \E t \in 1..Len(timers) : exec_get_balances(t)
    \/ \E t \in 1..Len(timers) : exec_get_positions(t)
    \/ \E t \in 1..Len(timers) : exec_notify_failed(t)
    \/ \E t \in 1..Len(timers) : exec_save_cancelled(t)
    \/ \E t \in 1..Len(timers) : exec_save_orders(t)
    \/ \E t \in 1..Len(timers) : exec_save_positions(t)
    \/ \E t \in 1..Len(timers) : exec_save_balances(t)
    \/ \E t \in 1..Len(timers) : exec_notify_executed(t)

SpecNotify == Init /\ [][NextNotify]_vars

\* ---- a cancel repeated -----------------------------------------------------

\* bot.py lines 182-185: after MaxCalls calls the user enters once more the cancel
\* of an order that a cancel_order call reported as cancelled
cancel_again(order_id) ==
    /\ main.pc = "idle"
    /\ calls = MaxCalls
    /\ \E k \in 1..Len(returned) : /\ returned[k].op = "cancel"
                                   /\ returned[k].res = "cancelled"
                                   /\ returned[k].arg = order_id
    /\ cancel_lookup(order_id)

NextCancel ==
    \/ \E s \in Symbols, q \in Quantities, p \in Quotes, a \in Advice :
           buy_check(s, q, p, a)
    \/ \E s \in Symbols, q \in Quantities, p \in Quotes, a \in Advice :
           sell_check(s, q, p, a)
    \/ place_next_order_id
    \/ place_get_orders
    \/ place_save_orders
    \/ \E id \in CancelIds : cancel_get_orders(id)
    \/ \E id \in CancelIds : cancel_again(id)
    \/ cancel_save_orders
    \/ \E t \in 1..Len(timers) : exec_get_orders(t)
    \/ \E t \in 1..Len(timers) : exec_get_balances(t)
    \/ \E t \in 1..Len(timers) : exec_get_positions(t)
    \/ \E t \in 1..Len(timers) : exec_notify_failed(t)
    \/ \E t \in 1..Len(timers) : exec_save_cancelled(t)
    \/ \E t \in 1..Len(timers) : exec_save_orders(t)
    \/ \E t \in 1..Len(timers) : exec_save_positions(t)
    \/ \E t \in 1..Len(timers) : exec_save_balances(t)
    \/ \E t \in 1..Len(timers) : exec_notify_executed(t)

SpecCancel == Init /\ [][NextCancel]_vars

\* ---- what the claims speak of ---------------------------------------------

Timers == 1..Len(timers)

\* call k returned the "has been cancelled" result
CancelSucceeded(k) == returned[k].op = "cancel" /\ returned[k].res = "cancelled"

\* call k (a buy or a sell) returned the "order placed" result
Placed(k) == returned[k].res = "placed"

\* timer thread t has written the result of a successful execution to a file
HasApplied(t) ==
    timers[t].pc \in {"save_positions", "save_balances", "notify_executed"}
        \/ timers[t].outcome = "executed"

\* timer thread t has saved the positions it computed (line 298)
HasSavedPositions(t) ==
    timers[t].pc \in {"save_balances", "notify_executed"}
        \/ timers[t].outcome = "executed"

\* timer thread t has saved the balances it computed (line 299)
HasSavedBalances(t) ==
    timers[t].pc = "notify_executed" \/ timers[t].outcome = "executed"

\* C1: when cancel_order(X) has returned "has been cancelled", X is not stored
\* as executed and no timer thread of X has written an execution of X (so an
\* execution that applies X's effect is only ever met by a failing cancel).
C1_CancelExcludesExecution ==
    \A k \in 1..Len(returned) :
        CancelSucceeded(k) =>
            /\ \A i \in 1..Len(orders) :
                   orders[i].id = returned[k].arg => orders[i].status /= "executed"
            /\ \A t \in Timers :
                   timers[t].order_id = returned[k].arg => ~HasApplied(t)

\* C2: in every state, an order stored as executed has its execution's
\* positions and balances stored too (the thread that stamped it, -executed_at,
\* has saved both), and no execution has its balances stored before its
\* positions.
C2_LedgerAtomic ==
    /\ \A i \in 1..Len(orders) :
           orders[i].status = "executed" =>
               /\ (0 - orders[i].executed_at) \in Timers
               /\ HasSavedPositions(0 - orders[i].executed_at)
               /\ HasSavedBalances(0 - orders[i].executed_at)
    /\ \A t \in Timers : HasSavedBalances(t) => HasSavedPositions(t)

\* C3: a stored order that is executed or cancelled has the same status in the
\* next state, whatever step is taken.
C3_TerminalStatus ==
    [][\A i \in 1..Len(orders) :
          orders[i].status \in {"executed", "cancelled"} =>
              \A j \in 1..Len(orders') :
                  (orders'[j].id = orders[i].id
                      /\ orders'[j].created_at = orders[i].created_at)
                  => orders'[j].status = orders[i].status]_vars

\* C4: an order whose placement returned success is in the stored order list
\* in every later state.
C4_PlacedOrderStays ==
    \A k \in 1..Len(returned) :
        Placed(k) =>
            \E i \in 1..Len(orders) :
                orders[i].id = returned[k].arg /\ orders[i].created_at = k

RECURSIVE ExecutedTotal(_, _)
\* the sum of the totals of the executed orders of one action
ExecutedTotal(ords, action) ==
    IF ords = <<>> THEN 0
    ELSE (IF Head(ords).status = "executed" /\ Head(ords).action = action
          THEN Head(ords).total ELSE 0) + ExecutedTotal(Tail(ords), action)

\* C5: whenever no execution is in progress, stored cash is the initial cash
\* minus the totals of the executed buys plus the totals of the executed sells.
C5_CashExact ==
    InFlight = {} =>
        balances.cash = InitCash - ExecutedTotal(orders, "buy")
                                 + ExecutedTotal(orders, "sell")

\* stored cash is never negative, and neither is the cash a timer thread has
\* computed and is about to save
StoredCashNonNegative ==
    /\ balances.cash >= 0
    /\ \A t \in Timers :
           timers[t].pc \in {"save_orders", "save_positions", "save_balances"}
               => timers[t].loc.balances.cash >= 0

\* no sell was placed, so the cash to spend never was more than InitCash
OnlyBuysPlaced == \A k \in 1..Len(returned) : Placed(k) => returned[k].op = "buy"

\* C6: stored cash is never negative, and of two buys that each passed the
\* placement check against the same cash and together cost more than it, at
\* most one is executed (the other is cancelled at its execution).
C6_NoOverdraft ==
    /\ StoredCashNonNegative
    /\ OnlyBuysPlaced =>
           \A a, b \in 1..Len(orders) :
               (/\ a /= b
                /\ orders[a].action = "buy" /\ orders[b].action = "buy"
                /\ orders[a].total + orders[b].total > InitCash)
               => ~(orders[a].status = "executed" /\ orders[b].status = "executed")

RECURSIVE ExecutedQty(_, _, _)
\* the sum of the quantities of the executed orders of one action and symbol
ExecutedQty(ords, action, symbol) ==
    IF ords = <<>> THEN 0
    ELSE (IF /\ Head(ords).status = "executed"
             /\ Head(ords).action = action
             /\ Head(ords).symbol = symbol
          THEN Head(ords).quantity ELSE 0)
         + ExecutedQty(Tail(ords), action, symbol)

InitHolding(symbol) == IF symbol = HeldSymbol THEN InitQty ELSE 0

\* C7: for every symbol the executed sells are at most the initial holding
\* plus the executed buys, and no stored position has a negative quantity.
C7_NoOverselling ==
    /\ \A s \in Symbols :
           ExecutedQty(orders, "sell", s)
               <= InitHolding(s) + ExecutedQty(orders, "buy", s)
    /\ \A i \in 1..Len(positions) : positions[i].quantity >= 0

\* the numeric suffix of an order id
IdNum(id) == ParseInt(ReplaceORD(id)).val

\* C8: of two successful placements the later one got the greater id.
C8_IdsIncrease ==
    \A j, k \in 1..Len(returned) :
        (j < k /\ Placed(j) /\ Placed(k))
            => IdNum(returned[j].arg) < IdNum(returned[k].arg)

PlacedResults == SelectSeq(returned, LAMBDA r : r.res = "placed")

\* C9: there is one timer per successful placement, in order and for that
\* order's id (so a rejected placement and a cancel start or drop none), and
\* a timer calls _execute_order once when it fires and never again.
C9_OneAttemptPerOrder ==
    /\ Len(timers) = Len(PlacedResults)
    /\ \A t \in Timers :
           /\ timers[t].order_id = PlacedResults[t].arg
           /\ timers[t].runs = (IF timers[t].pc = "pending" THEN 0 ELSE 1)

\* C9's case: a rejected placement, a successful cancel, and the cancelled
\* order's timer has fired and finished.
C9_Witness ==
    /\ \E k \in 1..Len(returned) :
           returned[k].res \in {"no_price", "insufficient_cash", "no_position",
                                "insufficient_quantity"}
    /\ \E k \in 1..Len(returned) : CancelSucceeded(k)
    /\ Len(timers) = 1
    /\ timers[1].pc = "done" /\ timers[1].runs = 1

\* C10: when _execute_order loads the orders and its order is missing or not
\* open, that step ends the call, writes no file and emits no notification,
\* and a finished call takes no further step.
C10_ExecuteNoOp ==
    [][\A t \in Timers :
          /\ (timers[t].pc = "pending" /\ timers'[t].pc /= "pending"
                  /\ (LET i == FindOrder(orders, timers[t].order_id)
                      IN  i = 0 \/ orders[i].status /= "open"))
             => /\ timers'[t].pc = "done"
                /\ timers'[t].outcome = "noop"
                /\ UNCHANGED <<orders, positions, balances, notes, pending, delivered>>
          /\ timers[t].pc = "done" => timers'[t] = timers[t]]_vars

\* C10's case: a timer fired for an order the user had cancelled and ended
\* without effect: the ledger is as it was and nothing was notified.
C10_Witness ==
    /\ \E t \in Timers :
           /\ timers[t].outcome = "noop"
           /\ \E i \in 1..Len(orders) :
                  /\ orders[i].id = timers[t].order_id
                  /\ orders[i].status = "cancelled" /\ orders[i].cancelled_at > 0
    /\ positions = InitPositions
    /\ balances.cash = InitCash
    /\ notes = <<>>

\* C10's other case: a timer fired for an order that is no longer stored.
C10_NotFoundReached ==
    \E t \in Timers :
        timers[t].outcome = "noop" /\ FindOrder(orders, timers[t].order_id) = 0

\* the stored orders, positions and balances, and the scheduled executions
ledger == <<orders, positions, balances, timers>>

\* an earlier cancel_order call of this id returned the "has been cancelled" result
CancelledBefore(order_id) ==
    \E k \in 1..Len(returned) : CancelSucceeded(k) /\ returned[k].arg = order_id

RevalidationFails(order, cash, poss) ==
    \/ order.action = "buy" /\ order.total > cash
    \/ /\ order.action = "sell"
       /\ \A p \in 1..Len(poss) :
              poss[p].symbol = order.symbol => order.quantity > poss[p].quantity

\* the failure notifications emitted for the execution run by timer thread t
FailureNotes(t) ==
    IF timers[t].pc = "save_cancelled" \/ timers[t].outcome = "cancelled" THEN 1 ELSE 0

RECURSIVE SumFailureNotes(_)
SumFailureNotes(t) == IF t = 0 THEN 0 ELSE FailureNotes(t) + SumFailureNotes(t - 1)

\* C12: an execution fails its re-validation exactly when the total of the buy is
\* above the cash read, or the position of the sell is missing or smaller than the
\* order; it then emits one failure notification, stores the order as cancelled
\* with cancelled_at stamped, and writes neither balances nor positions.
C12_RevalidationFailure ==
    [][\A t \in Timers :
          LET loc == timers[t].loc
          IN  /\ exec_get_positions(t) =>
                    /\ timers'[t].pc = "notify_failed" <=>
                           RevalidationFails(loc.orders[loc.i], loc.balances.cash,
                                             positions)
                    /\ timers'[t].pc = "notify_failed" \/ timers'[t].pc = "save_orders"
              /\ exec_notify_failed(t) =>
                    /\ Len(notes') = Len(notes) + 1
                    /\ notes'[Len(notes')].kind = "failed"
                    /\ notes'[Len(notes')].order_id = timers[t].order_id
                    /\ timers'[t].pc = "save_cancelled"
              /\ exec_save_cancelled(t) =>
                    /\ orders'[loc.i].id = timers[t].order_id
                    /\ orders'[loc.i].status = "cancelled"
                    /\ orders'[loc.i].cancelled_at # NoStamp
                    /\ timers'[t].outcome = "cancelled"
                    /\ notes' = notes
              /\ (timers[t].pc \in {"notify_failed", "save_cancelled"}
                    /\ timers'[t] # timers[t]) =>
                    /\ UNCHANGED <<positions, balances>>
                    /\ exec_notify_failed(t) \/ exec_save_cancelled(t)
              /\ Len(SelectSeq(notes', LAMBDA n : n.kind = "failed"))
                    = SumFailureNotes(Len(timers))']_vars

\* a buy failed its re-validation and is stored as cancelled, one failure
\* notification was emitted, the ledger is as it was before that execution
C12_Witness ==
    \E t \in Timers :
        LET i == FindOrder(orders, timers[t].order_id)
        IN  /\ timers[t].outcome = "cancelled"
            /\ i /= 0
            /\ orders[i].action = "buy"
            /\ orders[i].status = "cancelled"
            /\ orders[i].cancelled_at = 0 - t
            /\ orders[i].total > balances.cash
            /\ Len(SelectSeq(notes, LAMBDA n : n.kind = "failed")) = 1

\* a sell failed its re-validation: the position was sold before it ran
C12_SellFailureReached ==
    \E t \in Timers :
        LET i == FindOrder(orders, timers[t].order_id)
        IN  /\ timers[t].outcome = "cancelled"
            /\ i /= 0
            /\ orders[i].action = "sell"
            /\ orders[i].status = "cancelled"
            /\ FindPosition(positions, orders[i].symbol) = 0

\* C13: a buy with a quote goes on to create an open order exactly when
\* round(price*quantity, 2) is at most the cash stored at that moment, whatever
\* the totals of the buys still open; otherwise it returns the insufficient-cash
\* result.
C13_BuyCashCheck ==
    [][/\ \A s \in PlaceSymbols, q \in PlaceQuantities, p \in PlacePrices,
             a \in AdvisorOutcomes :
             buy_check(s, q, p, a) =>
                 /\ (main'.pc = "next_order_id") <=> (Round2(p * q) <= balances.cash)
                 /\ main'.pc = "next_order_id" =>
                        /\ main'.order.action = "buy"
                        /\ main'.order.status = "open"
                        /\ main'.order.total = Round2(p * q)
                 /\ main'.pc # "next_order_id" =>
                        /\ main' = Idle
                        /\ returned' = Return("buy", s, "insufficient_cash")
       /\ place_save_orders =>
             /\ orders' = Append(orders, main.order)
             /\ main.order.status = "open"
             /\ returned'[Len(returned')].res = "placed"]_vars

\* an open buy whose total equals the stored cash, a second open buy on top of
\* it, and a buy refused for its cash
C13_Witness ==
    /\ \E i, j \in 1..Len(orders) :
           /\ i # j
           /\ orders[i].action = "buy" /\ orders[i].status = "open"
           /\ orders[j].action = "buy" /\ orders[j].status = "open"
           /\ orders[i].total = balances.cash
    /\ \E k \in 1..Len(returned) : returned[k].res = "insufficient_cash"

\* a step of a buy or sell call: the call begins, moves on, or returns
PlacementStep ==
    /\ main' # main \/ returned' # returned
    /\ \/ main.pc \in {"next_order_id", "get_orders", "save_orders"}
       \/ main'.pc \in {"next_order_id", "get_orders", "save_orders"}
       \/ /\ Len(returned') = Len(returned) + 1
          /\ returned'[Len(returned')].op \in {"buy", "sell"}

\* C14: no step of a buy or sell call, accepted or refused, changes the stored
\* balances or positions; they change only in the save_positions and
\* save_balances of a timer thread executing a placed order.
C14_PlacementLeavesLedger ==
    [][/\ PlacementStep => UNCHANGED <<positions, balances>>
       /\ (positions' # positions \/ balances' # balances) =>
             \E t \in Timers :
                 /\ timers[t].pc \in {"save_positions", "save_balances"}
                 /\ timers'[t].pc # timers[t].pc
                 /\ \E k \in 1..Len(returned) :
                        Placed(k) /\ returned[k].arg = timers[t].order_id]_vars

\* an accepted and a refused placement have returned, no execution has fired,
\* and the ledger is the initial one
C14_Witness ==
    /\ \E k \in 1..Len(returned) : Placed(k)
    /\ \E k \in 1..Len(returned) :
           returned[k].op \in {"buy", "sell"} /\ ~Placed(k)
    /\ \A t \in Timers : timers[t].pc = "pending"
    /\ balances.cash = InitCash
    /\ positions = InitPositions

\* the four refusals of a placement
Rejections == {"no_price", "insufficient_cash", "no_position", "insufficient_quantity"}

\* the inputs and the stored state make buy refuse: no quote, or a total above
\* the cash
BuyRefused(q, p) == p = NoPrice \/ Round2(p * q) > balances.cash

\* the inputs and the stored state make sell refuse: the symbol is not held, is
\* held in a smaller quantity, or has no quote
SellRefused(s, q, p) ==
    \/ p = NoPrice
    \/ \A i \in 1..Len(positions) :
           positions[i].symbol = s => q > positions[i].quantity

\* C15: a placement that is refused (no quote, total above the cash, symbol not
\* held, quantity above the holding) returns its refusal at once: no order is
\* stored, no id is used up, no execution is scheduled, and orders, positions and
\* balances stay as they are.
C15_RejectedPlacement ==
    [][\A s \in PlaceSymbols, q \in PlaceQuantities, p \in PlaceQuotes,
          a \in AdvisorOutcomes :
          (\/ buy_check(s, q, p, a) /\ BuyRefused(q, p)
           \/ sell_check(s, q, p, a) /\ SellRefused(s, q, p)) =>
              /\ main' = Idle
              /\ Len(returned') = Len(returned) + 1
              /\ returned'[Len(returned')].res \in Rejections
              /\ orders' = orders
              /\ next_order_id(orders') = next_order_id(orders)
              /\ timers' = timers
              /\ positions' = positions
              /\ balances' = balances]_vars

\* an accepted placement, a refused one, an accepted one: two orders with
\* successive ids and two scheduled executions
C15_Witness ==
    /\ Len(returned) = 3
    /\ Placed(1) /\ returned[1].arg = FormatOrderId(1)
    /\ returned[2].res \in Rejections
    /\ Placed(3) /\ returned[3].arg = FormatOrderId(2)
    /\ Len(orders) = 2
    /\ Len(timers) = 2

\* how the check of a placement ended in this step: with a refusal, or going on
\* to create the order
CheckOutcome ==
    IF main'.pc = "next_order_id" THEN "accepted" ELSE returned'[Len(returned')].res

\* the quantity held of a symbol, 0 when it is not held
Held(s) ==
    LET i == FindPosition(positions, s) IN IF i = 0 THEN 0 ELSE positions[i].quantity

\* C16: a sell fails with quote-unavailable whenever there is no price for the
\* symbol; otherwise with no-position if the symbol is not held; otherwise with
\* insufficient-quantity if the quantity is above the holding; otherwise it is
\* accepted.
C16_SellOutcome ==
    [][\A s \in PlaceSymbols, q \in PlaceQuantities, p \in PlaceQuotes,
          a \in AdvisorOutcomes :
          sell_check(s, q, p, a) =>
              CheckOutcome = IF p = NoPrice THEN "no_price"
                             ELSE IF FindPosition(positions, s) = 0 THEN "no_position"
                             ELSE IF q > Held(s) THEN "insufficient_quantity"
                             ELSE "accepted"]_vars

\* C16 as the code has it: a sell fails with no-position if the symbol is not
\* held; otherwise with insufficient-quantity if the quantity is above the
\* holding; otherwise with quote-unavailable if there is no price; otherwise it
\* is accepted, a quantity equal to the holding included.
C16_SellOutcomeAsCoded ==
    [][\A s \in PlaceSymbols, q \in PlaceQuantities, p \in PlaceQuotes,
          a \in AdvisorOutcomes :
          sell_check(s, q, p, a) =>
              CheckOutcome = IF FindPosition(positions, s) = 0 THEN "no_position"
                             ELSE IF q > Held(s) THEN "insufficient_quantity"
                             ELSE IF p = NoPrice THEN "no_price"
                             ELSE "accepted"]_vars

\* a sell of the whole holding was accepted, a sell of the symbol that is not
\* held was refused for the missing position, another for its quantity
C16_Witness ==
    /\ \E i \in 1..Len(orders) :
           /\ orders[i].action = "sell"
           /\ orders[i].quantity = Held(orders[i].symbol)
    /\ \E k \in 1..Len(returned) :
           /\ returned[k].op = "sell"
           /\ returned[k].res = "no_position"
           /\ Held(returned[k].arg) = 0
    /\ \E k \in 1..Len(returned) : returned[k].res = "insufficient_quantity"

\* the text a placement returns for an outcome of the advisor: its text, nothing
\* when it raised
AdvisoryText(a) == IF a = "error" THEN "" ELSE a

\* C17: a placement that passes its quote and cash or quantity checks goes on to
\* the same order (id, price, total, status open) and the same scheduling
\* whatever the advisor did; when the advisor raises, the call still returns the
\* placement, only without advisory text.
C17_AdvisoryNeverGates ==
    [][/\ \A s \in PlaceSymbols, q \in PlaceQuantities, p \in PlaceQuotes,
             a \in AdvisorOutcomes :
             /\ (buy_check(s, q, p, a) /\ ~BuyRefused(q, p)) =>
                   /\ main'.pc = "next_order_id"
                   /\ main'.order = NewOrder(<<>>, s, "buy", q, p, calls + 1)
                   /\ main'.warning = AdvisoryText(main'.advisor)
                   /\ returned' = returned
             /\ (sell_check(s, q, p, a) /\ ~SellRefused(s, q, p)) =>
                   /\ main'.pc = "next_order_id"
                   /\ main'.order = NewOrder(<<>>, s, "sell", q, p, calls + 1)
                   /\ main'.warning = AdvisoryText(main'.advisor)
                   /\ returned' = returned
       /\ place_next_order_id =>
             /\ main'.order = [main.order EXCEPT !.id = next_order_id(orders)]
             /\ main'.pc = "get_orders"
       /\ place_get_orders => main'.order = main.order /\ main'.pc = "save_orders"
       /\ place_save_orders =>
             /\ orders' = Append(orders, main.order)
             /\ main.order.status = "open"
             /\ timers' = Append(timers, NewTimer(main.order.id))
             /\ returned' = Append(returned,
                    [op |-> main.order.action, arg |-> main.order.id,
                     res |-> "placed", warning |-> AdvisoryText(main.advisor),
                     advisor |-> main.advisor])]_vars

\* two placements of the same trade, the advisor gave a text to one and raised
\* in the other: both orders are stored open and scheduled, they differ in id
\* and time only, and the second result has no advisory text
C17_Witness ==
    \E j, k \in 1..Len(returned) :
        /\ Placed(j) /\ returned[j].advisor = "text" /\ returned[j].warning = "text"
        /\ Placed(k) /\ returned[k].advisor = "error" /\ returned[k].warning = ""
        /\ \E a, b \in 1..Len(orders) :
               /\ orders[a].id = returned[j].arg
               /\ orders[b].id = returned[k].arg
               /\ orders[a].status = "open" /\ orders[b].status = "open"
               /\ orders[a].symbol = orders[b].symbol
               /\ orders[a].action = orders[b].action
               /\ orders[a].quantity = orders[b].quantity
               /\ orders[a].price = orders[b].price
               /\ orders[a].total = orders[b].total
        /\ \E t, u \in Timers :
               /\ t # u
               /\ timers[t].order_id = returned[j].arg
               /\ timers[u].order_id = returned[k].arg

\* the order that timer thread t is executing, as the thread holds it
ExecOrder(t) == timers[t].loc.orders[timers[t].loc.i]

\* C18: when the execution of a sell stores its positions, the stored quantity
\* of the symbol goes down by the quantity of the order, the position is gone
\* if that leaves nothing, and the avg_cost of a position that remains is as it
\* was; when it stores its balances, the stored cash goes up by the total of the
\* order.
C18_SellExecution ==
    [][\A t \in Timers :
          /\ (exec_save_positions(t) /\ ExecOrder(t).action = "sell") =>
                LET order == ExecOrder(t)
                    p == FindPosition(positions, order.symbol)
                    n == FindPosition(positions', order.symbol)
                IN  /\ p # 0
                    /\ IF positions[p].quantity - order.quantity <= 0
                       THEN n = 0
                       ELSE /\ n # 0
                            /\ positions'[n].quantity =
                                   positions[p].quantity - order.quantity
                            /\ positions'[n].avg_cost = positions[p].avg_cost
          /\ (exec_save_balances(t) /\ ExecOrder(t).action = "sell") =>
                balances'.cash = balances.cash + ExecOrder(t).total]_vars

\* the quantity-weighted average cost after adding newq units bought at price
\* to oldq units of average cost oldavg, to 4 decimals
WeightedAvg(oldq, oldavg, newq, price) ==
    Round4Div(oldq * oldavg + newq * price, oldq + newq)

\* timer thread t has executed a buy that is stored as executed
ExecutedBuy(t) ==
    LET i == FindOrder(orders, timers[t].order_id)
    IN  /\ timers[t].outcome = "executed"
        /\ i # 0
        /\ orders[i].action = "buy"
        /\ orders[i].status = "executed"

\* C19: after two buys of the held symbol have both executed, and nothing else
\* has, the stored quantity of the position is the prior holding plus both
\* order quantities and its avg_cost is the weighted average of the prior cost
\* and the two fill prices, taken in one order or the other.
C19_TwoBuysAverage ==
    \A t, u \in Timers :
        (/\ t # u
         /\ ExecutedBuy(t) /\ ExecutedBuy(u)
         /\ InFlight = {}
         /\ \A v \in Timers \ {t, u} : timers[v].outcome # "executed") =>
            LET a  == orders[FindOrder(orders, timers[t].order_id)]
                b  == orders[FindOrder(orders, timers[u].order_id)]
                p  == FindPosition(positions, HeldSymbol)
                c0 == InitPositions[1].avg_cost
                ca == WeightedAvg(InitQty, c0, a.quantity, a.price)
                cb == WeightedAvg(InitQty, c0, b.quantity, b.price)
            IN  /\ p # 0
                /\ positions[p].quantity = InitQty + a.quantity + b.quantity
                /\ positions[p].avg_cost \in
                      {WeightedAvg(InitQty + a.quantity, ca, b.quantity, b.price),
                       WeightedAvg(InitQty + b.quantity, cb, a.quantity, a.price)}

\* the first buy of a symbol that is not held makes the position with the
\* quantity of the order and avg_cost = the price of the order
FirstBuyCreatesPosition ==
    [][\A t \in Timers :
          (/\ exec_get_positions(t)
           /\ ExecOrder(t).action = "buy"
           /\ FindPosition(positions, ExecOrder(t).symbol) = 0
           /\ timers'[t].pc = "save_orders") =>
              LET n == FindPosition(timers'[t].loc.positions, ExecOrder(t).symbol)
              IN  /\ n # 0
                  /\ timers'[t].loc.positions[n].quantity = ExecOrder(t).quantity
                  /\ timers'[t].loc.positions[n].avg_cost = ExecOrder(t).price]_vars

\* a buy has created the position of a symbol that had been sold off
FirstBuyReached ==
    \E t \in Timers :
        /\ ExecutedBuy(t)
        /\ \E p \in 1..Len(positions) :
               positions[p].avg_cost = orders[FindOrder(orders, timers[t].order_id)].price

\* C20: the stored balances have total = cash + non_cash, initially and after
\* every execution has stored its balances.
C20_TotalIsSum == balances.total = balances.cash + balances.non_cash

\* the notifications emitted so far that name this order id
NotesOf(ns, order_id) == SelectSeq(ns, LAMBDA n : n.order_id = order_id)

\* every order id that a placement has returned
PlacedIds == {returned[k].arg : k \in {j \in 1..Len(returned) : Placed(j)}}

\* C21: the execution of an order emits at most one notification: the success
\* one only after it has stored the order as executed and saved positions and
\* balances, the failure one only for the order it stores as cancelled; no order
\* gets two notifications, and the timer of an order that a cancel_order call
\* has cancelled emits none.
C21_OneNotification ==
    [][/\ \A t \in Timers :
             /\ exec_notify_executed(t) =>
                   /\ timers[t].loc.orders[timers[t].loc.i].status = "executed"
                   /\ timers'[t].outcome = "executed"
                   /\ HasSavedBalances(t)
             /\ exec_notify_failed(t) =>
                   /\ timers'[t].loc.orders[timers[t].loc.i].status = "cancelled"
                   /\ timers'[t].pc = "save_cancelled"
             /\ (exec_get_orders(t) /\ CancelledBefore(timers[t].order_id)) =>
                   timers'[t].outcome = "noop"
       /\ \A id \in PlacedIds : Len(NotesOf(notes', id)) <= 1
       /\ Len(notes') <= Len(notes) + 1]_vars

\* the id is "ORD" followed by one or more digits
Conforms(id) ==
    /\ Len(id) > 3
    /\ SubSeq(id, 1, 3) = <<"O", "R", "D">>
    /\ \A i \in 4..Len(id) : IsDigit(id[i])

\* the highest numeric suffix among the conforming ids of the orders, 0 if none
HighestSuffix(ords) ==
    LET nums == {DigitsValue(SubSeq(ords[i].id, 4, Len(ords[i].id))) :
                    i \in {j \in 1..Len(ords) : Conforms(ords[j].id)}}
    IN  IF nums = {} THEN 0 ELSE CHOOSE m \in nums : \A n \in nums : n <= m

\* C22: the id given to a new order is "ORD" and (the highest numeric suffix
\* among the stored ids of the form "ORD"+digits) + 1 padded to 3 digits, "ORD001"
\* when no stored id has that form; stored ids of another form are ignored.
C22_NextOrderId ==
    [][place_next_order_id =>
          main'.order.id = FormatOrderId(HighestSuffix(orders) + 1)]_vars

\* the fields of an order that are set at its creation for good
Created(o) == <<o.id, o.symbol, o.type, o.action, o.quantity, o.price, o.total,
                o.created_at>>

\* C23: every stored order stays stored with the fields of its creation; its
\* status and timestamps change only in the save_orders of a cancel_order or an
\* _execute_order of that very order, so an operation on one order leaves the
\* stored record of every other order as it is.
C23_OtherOrdersUntouched ==
    [][\A i \in 1..Len(orders) :
          /\ i <= Len(orders')
          /\ Created(orders'[i]) = Created(orders[i])
          /\ orders'[i] # orders[i] =>
                \/ cancel_save_orders /\ orders[i].id = main.order_id
                \/ \E t \in Timers :
                       /\ exec_save_orders(t) \/ exec_save_cancelled(t)
                       /\ orders[i].id = timers[t].order_id]_vars

\* C24: once every scheduled timer has fired and run to its end, and no call is
\* in progress, every order that a placement returned is stored as executed or
\* cancelled and no stored order is open.
C24_NoOrderLeftOpen ==
    (/\ main = Idle
     /\ \A t \in Timers : timers[t].pc = "done") =>
        /\ \A i \in 1..Len(orders) : orders[i].status # "open"
        /\ \A k \in 1..Len(returned) :
               Placed(k) => \E i \in 1..Len(orders) :
                               /\ orders[i].id = returned[k].arg
                               /\ orders[i].status \in {"executed", "cancelled"}

\* C25: whenever no execution is in progress, the stored non_cash is the sum of
\* quantity*current_price over the stored positions, rounded to 2 decimals.
C25_NonCashIsPositionValue ==
    InFlight = {} => balances.non_cash = Round2(SumValue(positions))

\* C26: the stored positions hold at most one position per symbol, and every
\* stored position has a quantity above 0.
C26_OnePositionPerSymbol ==
    /\ \A i, j \in 1..Len(positions) :
           positions[i].symbol = positions[j].symbol => i = j
    /\ \A i \in 1..Len(positions) : positions[i].quantity > 0

\* two buys of a symbol that is not held any more are executing at once: one
\* has stored the position it created, the other is about to store its own
C26_Witness ==
    \E t, u \in Timers :
        /\ t # u
        /\ timers[t].pc = "save_balances"
        /\ timers[u].pc = "save_positions"
        /\ ExecOrder(t).action = "buy" /\ ExecOrder(u).action = "buy"
        /\ ExecOrder(t).symbol = ExecOrder(u).symbol
        /\ positions = timers[t].loc.positions
        /\ Len(positions) = 1
        /\ positions[1].quantity = ExecOrder(t).quantity
        /\ Len(timers[u].loc.positions) = 1
        /\ timers[u].loc.positions[1].quantity = ExecOrder(u).quantity

\* C27: every message a timer thread passed to _on_order_notification is either
\* still pending or has been returned by get_pending_notifications, once and in
\* the order of its emission: none is lost, none is returned twice.
C27_NotificationsDelivered == delivered \o pending = notes

====
